---------------------------- MODULE Spec2Model ----------------------------
(***************************************************************************)
(* Payment core of the job-marketplace backend: the transfer helper of     *)
(* src/src/utils.js and the two request handlers of src/src/app.js that    *)
(* call it, POST /jobs/:job_id/pay and POST /balances/deposit/:userId.     *)
(*                                                                         *)
(* A request handler is an async function.  Everything it does between two *)
(* awaits on the store is one action; every SQL statement it has issued    *)
(* and not yet seen settle is a separate step of the store, which applies  *)
(* it atomically in any order relative to the statements of other          *)
(* requests, or fails it.                                                  *)
(***************************************************************************)
EXTENDS Integers, Sequences, FiniteSets

(***************************************************************************)
(* Bounds of the model.                                                    *)
(***************************************************************************)
\* Number of requests a behaviour receives when they are served one at a time.
MaxRequests == 3
\* Number of requests a behaviour receives when they may overlap.
MaxOverlapping == 2
\* Number of requests that may be in flight at once.
MaxInFlight == 2

Slots == 1..MaxInFlight

(***************************************************************************)
(* The store: Profiles, Contracts and Jobs rows.  Contracts and the price  *)
(* and ContractId of a job are never written by the handlers.              *)
(***************************************************************************)
ProfileIds == {1, 2, 3}
\* An id that denotes no profile.
NoProfile == 4
\* The ids a request may name as the receiver of a deposit.
UserIds == ProfileIds \cup {NoProfile}

Contracts ==
    [c \in {1, 2} |->
        IF c = 1 THEN [ClientId |-> 1, ContractorId |-> 3, status |-> "in_progress"]
                 ELSE [ClientId |-> 2, ContractorId |-> 3, status |-> "terminated"]]

JobRows ==
    [j \in {1, 2} |->
        IF j = 1 THEN [ContractId |-> 1, price |-> 100]
                 ELSE [ContractId |-> 2, price |-> 200]]

ContractIds == DOMAIN Contracts
\* An id that denotes no contract.
NoContractId == 8
RequestedContractIds == ContractIds \cup {NoContractId}

JobIds == DOMAIN JobRows
\* An id that denotes no job.
NoJobId == 9
RequestedJobIds == JobIds \cup {NoJobId}

\* Balances the profiles start with, by profile id.
StartBalances == {<<0, 150, 0>>, <<150, 500, 0>>}

\* JavaScript values of req.body.amount: a number, or undefined when absent.
Num(n) == [t |-> "number", v |-> n]
Undefined == [t |-> "undefined", v |-> 0]
Amounts == {Undefined, Num(-25), Num(0), Num(25), Num(26)}

VARIABLES
    balance,   \* Profiles.balance, by profile id
    jobs,      \* Jobs.paid and Jobs.paymentDate, by job id
    clock,     \* the time new Date() reads: the requests received so far
    rq,        \* the requests in flight, by slot
    ledger     \* by profile id: the balance it started with plus the amounts
               \* of the statements the store has applied to it since

vars == <<balance, jobs, clock, rq, ledger>>

(***************************************************************************)
(* JavaScript and SQL primitives the handlers use.                         *)
(***************************************************************************)
\* if (job.paid): null and false are falsy, true is truthy.
Truthy(paid) == paid = "TRUE"

\* !amount: undefined and 0 are falsy.
Falsy(a) == a.t = "undefined" \/ a.v = 0

\* a < b and a > b on JavaScript values: false when an operand is undefined (NaN).
JsLess(a, b) == a.t = "number" /\ b.t = "number" /\ a.v < b.v

\* amount <= 0 : undefined converts to NaN, the comparison is false.
JsLeqZero(a) == a.t = "number" /\ a.v <= 0

RECURSIVE SumPrices(_)
SumPrices(S) ==
    IF S = {} THEN 0
    ELSE LET j == CHOOSE x \in S : TRUE
         IN  JobRows[j].price + SumPrices(S \ {j})

RECURSIVE SumOver(_, _)
SumOver(f, S) ==
    IF S = {} THEN 0
    ELSE LET x == CHOOSE y \in S : TRUE
         IN  f[x] + SumOver(f, S \ {x})

\* Sum of all balances.
TotalBalance == SumOver(balance, ProfileIds)

(***************************************************************************)
(* A request slot.                                                         *)
(***************************************************************************)
NoJob == [found |-> FALSE, id |-> 0, price |-> 0, paid |-> "NULL",
          ClientId |-> 0, ContractorId |-> 0,
          clientBalance |-> 0, contractorBalance |-> 0]

Idle == [pc |-> "idle", kind |-> "none", profileId |-> 0, target |-> 0,
         amount |-> Undefined, job |-> NoJob, summed |-> FALSE, total |-> 0,
         from |-> 0, to |-> 0, value |-> 0, date |-> 0,
         pending |-> {}, applied |-> {}, failed |-> FALSE, before |-> <<>>,
         sends |-> <<>>, message |-> "", body |-> {}, thrown |-> FALSE,
         tx |-> "none"]

\* The status the caller receives: the first response sent, 0 when none is.
Status(r) == IF rq[r].sends = <<>> THEN 0 ELSE rq[r].sends[1]

\* The slot of a request that is over is cleared before anything else happens
\* (clearing it touches no other request and nothing in the store).
NoneDone == \A s \in Slots : rq[s].pc # "done"

\* A new request takes the lowest free slot.
Free(r) ==
    /\ NoneDone
    /\ rq[r].pc = "idle"
    /\ \A s \in Slots : s < r => rq[s].pc # "idle"

\* Request r awaits statement w.
Awaits(r, w) ==
    /\ NoneDone
    /\ rq[r].pc = "writes"
    /\ w \in rq[r].pending

Init ==
    /\ \E b \in StartBalances : balance = [p \in ProfileIds |-> b[p]]
    /\ jobs = [j \in JobIds |-> [paid |-> "NULL", paymentDate |-> 0]]
    /\ clock = 0
    /\ rq = [r \in Slots |-> Idle]
    /\ ledger = balance

(***************************************************************************)
(* POST /jobs/:job_id/pay                                                  *)
(***************************************************************************)
\* Job.findOne with its Contract and the contract's Client and Contractor,
\* where id = jobId and Contract.ClientId = profileId.
FindJob(jobId, profileId) ==
    IF jobId \in JobIds /\ Contracts[JobRows[jobId].ContractId].ClientId = profileId
    THEN LET c == Contracts[JobRows[jobId].ContractId]
         IN  [found |-> TRUE, id |-> jobId, price |-> JobRows[jobId].price,
              paid |-> jobs[jobId].paid,
              ClientId |-> c.ClientId, ContractorId |-> c.ContractorId,
              clientBalance |-> balance[c.ClientId],
              contractorBalance |-> balance[c.ContractorId]]
    ELSE NoJob

\* job.value: the Job model has no such attribute, the read yields undefined.
JobValue(job) == Undefined

\* The paid check left out.
AlreadyPaidUnchecked(job) == FALSE

\* if (job.paid)
AlreadyPaid(job) == Truthy(job.paid)

\* if (client.balance < job.value)
InsufficientBalance(job) == JsLess(Num(job.clientBalance), JobValue(job))

\* The statements payJob issues: transfer's two Profile.update and Job.update.
\* The transaction is handed to update as a third argument, which update does
\* not take: each statement runs on its own, outside the transaction.
PayWrites == {"debit", "credit", "markPaid"}

\* The handler from the request's arrival to its first await of the writes.
PayJobStart(r, p, j) ==
    LET job == FindJob(j, p)
        base == [Idle EXCEPT !.kind = "pay", !.profileId = p, !.target = j,
                             !.before = balance]
    IN  IF ~job.found
        \* line 108 reads job.Contract of null before the 404 check: TypeError
        THEN [base EXCEPT !.pc = "done", !.job = job, !.thrown = TRUE]
        ELSE IF AlreadyPaid(job) \/ InsufficientBalance(job)
        \* res.send(400) answers 400; the chained .json() then throws
        THEN [base EXCEPT !.pc = "done", !.job = job,
                          !.sends = <<400, 400>>, !.message = "Bad Request",
                          !.thrown = TRUE]
        ELSE [base EXCEPT !.pc = "writes", !.job = job,
                          !.from = job.ClientId, !.to = job.ContractorId,
                          !.value = job.price, !.date = clock + 1,
                          !.pending = PayWrites, !.tx = "open"]

PayJob(r, p, j) ==
    /\ Free(r)
    /\ clock' = clock + 1
    /\ rq' = [rq EXCEPT ![r] = PayJobStart(r, p, j)]
    /\ UNCHANGED <<balance, jobs, ledger>>

(***************************************************************************)
(* POST /balances/deposit/:userId                                          *)
(***************************************************************************)
\* Job.sum('price') over the jobs with Contract.ClientId = profileId and
\* paid IS NULL; no such job gives null, which the arithmetic reads as 0.
TotalAmountToBePaid(profileId) ==
    SumPrices({j \in JobIds :
                  /\ Contracts[JobRows[j].ContractId].ClientId = profileId
                  /\ jobs[j].paid = "NULL"})

\* The cap compared with >= in place of >.
ExceedsMaxDepositInclusive(a, total) == a.t = "number" /\ 100 * a.v >= 25 * total

\* amount > maxDepositValue, with maxDepositValue = (25 * total) / 100
ExceedsMaxDeposit(a, total) == a.t = "number" /\ 100 * a.v > 25 * total

\* The self check left out.
SelfDepositUnchecked(u, p) == FALSE

\* if (userId === profileId)
SelfDeposit(u, p) == u = p

\* Only the !amount half of the check.
InvalidAmountFalsyOnly(a) == Falsy(a)

\* if (!amount || amount <= 0)
InvalidAmount(a) == Falsy(a) \/ JsLeqZero(a)

\* The statements transfer issues.
TransferWrites == {"debit", "credit"}

DepositStart(r, p, u, a) ==
    LET total == TotalAmountToBePaid(p)
        base  == [Idle EXCEPT !.kind = "deposit", !.profileId = p, !.target = u,
                              !.amount = a, !.before = balance]
    IN  IF SelfDeposit(u, p)
        THEN [base EXCEPT !.pc = "done", !.sends = <<400>>,
                          !.message = "Cannot deposit to yourself"]
        ELSE IF InvalidAmount(a)
        THEN [base EXCEPT !.pc = "done", !.sends = <<400>>,
                          !.message = "Invalid deposit amount"]
        ELSE IF ExceedsMaxDeposit(a, total)
        THEN [base EXCEPT !.pc = "done", !.summed = TRUE, !.total = total,
                          !.sends = <<400>>,
                          !.message = "Cannot deposit more than 25% of total of unpaid jobs"]
        \* transfer(profileId, userId, amount) opens its own transaction
        ELSE [base EXCEPT !.pc = "writes", !.summed = TRUE, !.total = total,
                          !.from = p, !.to = u, !.value = a.v,
                          !.pending = TransferWrites, !.tx = "open"]

Deposit(r, p, u, a) ==
    /\ Free(r)
    /\ clock' = clock + 1
    /\ rq' = [rq EXCEPT ![r] = DepositStart(r, p, u, a)]
    /\ UNCHANGED <<balance, jobs, ledger>>

(***************************************************************************)
(* The store settles the statements a request has issued.                  *)
(***************************************************************************)
\* The update writes the amount itself, not balance + amount.
UpdateBalanceAssigned(b, id, delta) ==
    IF id \in DOMAIN b THEN [b EXCEPT ![id] = delta] ELSE b

\* The update without its where clause: every row is changed.
UpdateBalanceEveryRow(b, id, delta) == [x \in DOMAIN b |-> b[x] + delta]

\* UPDATE Profiles SET balance = balance + delta WHERE id = id: no row, no change.
UpdateBalance(b, id, delta) ==
    IF id \in DOMAIN b THEN [b EXCEPT ![id] = b[id] + delta] ELSE b

\* What the handler does when the promise it awaits settles.  Promise.all
\* rejects with the first statement that fails and resolves with the last
\* one that succeeds; the statements still running are not cancelled.
Settled(s, w, ok) ==
    LET left == s.pending \ {w}
        t == [s EXCEPT !.pending = left,
                       !.applied = IF ok THEN s.applied \cup {w} ELSE s.applied,
                       !.failed  = s.failed \/ ~ok,
                       !.pc      = IF left = {} THEN "done" ELSE "writes"]
    IN  IF ~ok /\ ~s.failed
        THEN IF s.kind = "pay"
             \* the managed transaction rolls back, the catch answers 500
             THEN [t EXCEPT !.sends = <<500>>, !.message = "Internal server error",
                            !.tx = "rolledback"]
             \* the catch answers 500 and falls through to the 200 below it
             ELSE [t EXCEPT !.sends = <<500, 200>>, !.message = "Internal server error"]
        ELSE IF ok /\ ~s.failed /\ left = {}
        THEN IF s.kind = "pay"
             THEN [t EXCEPT !.sends = <<200>>, !.tx = "committed"]
             ELSE [t EXCEPT !.sends = <<200>>]
        ELSE t

\* The ledger after a statement adding delta to the row of id was applied.
Posted(id, delta) ==
    [p \in ProfileIds |-> IF p = id THEN ledger[p] + delta ELSE ledger[p]]

\* The handler computes the new balance from the balance it read when the
\* request arrived and writes that number.
DebitFromRead(r) ==
    /\ Awaits(r, "debit")
    /\ balance' = [balance EXCEPT ![rq[r].from] = rq[r].before[rq[r].from] - rq[r].value]
    /\ ledger' = Posted(rq[r].from, 0 - rq[r].value)
    /\ rq' = [rq EXCEPT ![r] = Settled(rq[r], "debit", TRUE)]
    /\ UNCHANGED <<jobs, clock>>

\* Profile.update balance - amount where id = from
Debit(r) ==
    /\ Awaits(r, "debit")
    /\ balance' = UpdateBalance(balance, rq[r].from, 0 - rq[r].value)
    /\ ledger' = Posted(rq[r].from, 0 - rq[r].value)
    /\ rq' = [rq EXCEPT ![r] = Settled(rq[r], "debit", TRUE)]
    /\ UNCHANGED <<jobs, clock>>

\* Profile.update balance + amount where id = to
Credit(r) ==
    /\ Awaits(r, "credit")
    /\ balance' = UpdateBalance(balance, rq[r].to, rq[r].value)
    /\ ledger' = Posted(rq[r].to, rq[r].value)
    /\ rq' = [rq EXCEPT ![r] = Settled(rq[r], "credit", TRUE)]
    /\ UNCHANGED <<jobs, clock>>

\* Job.update paid = true, paymentDate = new Date() where id = job.id
MarkPaid(r) ==
    /\ Awaits(r, "markPaid")
    /\ jobs' = [jobs EXCEPT ![rq[r].job.id] =
                   [paid |-> "TRUE", paymentDate |-> rq[r].date]]
    /\ rq' = [rq EXCEPT ![r] = Settled(rq[r], "markPaid", TRUE)]
    /\ UNCHANGED <<balance, clock, ledger>>

\* A statement fails (storage error, timeout): it changes nothing.
WriteFails(r, w) ==
    /\ Awaits(r, w)
    /\ rq' = [rq EXCEPT ![r] = Settled(rq[r], w, FALSE)]
    /\ UNCHANGED <<balance, jobs, clock, ledger>>

\* The request is over; its slot serves the next one.
Finish(r) ==
    /\ rq[r].pc = "done"
    /\ rq' = [rq EXCEPT ![r] = Idle]
    /\ UNCHANGED <<balance, jobs, clock, ledger>>

\* No request has statements in flight.
Quiet == \A s \in Slots : rq[s].pc # "writes"

\* The middleware getProfile lets a request through to its handler only when
\* its profile_id header names an existing profile: callers are ProfileIds.
Next ==
    \/ \E r \in Slots, p \in ProfileIds, j \in RequestedJobIds :
          clock < MaxOverlapping /\ PayJob(r, p, j)
    \/ \E r \in Slots, p \in ProfileIds, u \in UserIds, a \in Amounts :
          clock < MaxOverlapping /\ Deposit(r, p, u, a)
    \/ \E r \in Slots : Debit(r)
    \/ \E r \in Slots : Credit(r)
    \/ \E r \in Slots : MarkPaid(r)
    \/ \E r \in Slots, w \in PayWrites : WriteFails(r, w)
    \/ \E r \in Slots : Finish(r)

\* Concurrent requests over a store whose statements may fail.
Spec == Init /\ [][Next]_vars

\* One request at a time over a store that does not fail.
SeqNext ==
    \/ \E r \in Slots, p \in ProfileIds, j \in RequestedJobIds :
          clock < MaxRequests /\ Quiet /\ PayJob(r, p, j)
    \/ \E r \in Slots, p \in ProfileIds, u \in UserIds, a \in Amounts :
          clock < MaxRequests /\ Quiet /\ Deposit(r, p, u, a)
    \/ \E r \in Slots : Debit(r)
    \/ \E r \in Slots : Credit(r)
    \/ \E r \in Slots : MarkPaid(r)
    \/ \E r \in Slots : Finish(r)

SeqSpec == Init /\ [][SeqNext]_vars

\* One request at a time over a store whose statements may fail.
FaultNext ==
    \/ \E r \in Slots, p \in ProfileIds, j \in RequestedJobIds :
          clock < MaxRequests /\ Quiet /\ PayJob(r, p, j)
    \/ \E r \in Slots, p \in ProfileIds, u \in UserIds, a \in Amounts :
          clock < MaxRequests /\ Quiet /\ Deposit(r, p, u, a)
    \/ \E r \in Slots : Debit(r)
    \/ \E r \in Slots : Credit(r)
    \/ \E r \in Slots : MarkPaid(r)
    \/ \E r \in Slots, w \in PayWrites : WriteFails(r, w)
    \/ \E r \in Slots : Finish(r)

FaultSpec == Init /\ [][FaultNext]_vars

(***************************************************************************)
(* GET /contracts/:id and GET /jobs/unpaid                                 *)
(***************************************************************************)
\* Contract.findOne where id = id and ContractorId = profileId: the ids of the
\* rows found.
FindContract(id, profileId) ==
    {c \in ContractIds : c = id /\ Contracts[c].ContractorId = profileId}

\* if (!contract) return res.status(404).end(); return res.json(contract)
GetContract(r, p, id) ==
    /\ Free(r)
    /\ clock' = clock + 1
    /\ rq' = [rq EXCEPT ![r] =
                 [Idle EXCEPT !.pc = "done", !.kind = "contract", !.profileId = p,
                              !.target = id, !.before = balance,
                              !.body = FindContract(id, p),
                              !.sends = IF FindContract(id, p) = {}
                                        THEN <<404>> ELSE <<200>>]]
    /\ UNCHANGED <<balance, jobs, ledger>>

\* Job.findAll where (Contract.ContractorId = profileId or Contract.ClientId =
\* profileId) and paid IS NULL: the ids of the rows found.
FindUnpaidJobs(profileId) ==
    {j \in JobIds :
        /\ \/ Contracts[JobRows[j].ContractId].ContractorId = profileId
           \/ Contracts[JobRows[j].ContractId].ClientId = profileId
        /\ jobs[j].paid = "NULL"}

\* res.json(jobs)
GetUnpaidJobs(r, p) ==
    /\ Free(r)
    /\ clock' = clock + 1
    /\ rq' = [rq EXCEPT ![r] =
                 [Idle EXCEPT !.pc = "done", !.kind = "unpaid", !.profileId = p,
                              !.before = balance, !.body = FindUnpaidJobs(p),
                              !.sends = <<200>>]]
    /\ UNCHANGED <<balance, jobs, ledger>>

\* One request at a time, reads included, over a store that does not fail.
ReadNext ==
    \/ \E r \in Slots, p \in ProfileIds, j \in RequestedJobIds :
          clock < MaxRequests /\ Quiet /\ PayJob(r, p, j)
    \/ \E r \in Slots, p \in ProfileIds, u \in UserIds, a \in Amounts :
          clock < MaxRequests /\ Quiet /\ Deposit(r, p, u, a)
    \/ \E r \in Slots, p \in ProfileIds, c \in RequestedContractIds :
          clock < MaxRequests /\ Quiet /\ GetContract(r, p, c)
    \/ \E r \in Slots, p \in ProfileIds :
          clock < MaxRequests /\ Quiet /\ GetUnpaidJobs(r, p)
    \/ \E r \in Slots : Debit(r)
    \/ \E r \in Slots : Credit(r)
    \/ \E r \in Slots : MarkPaid(r)
    \/ \E r \in Slots : Finish(r)

ReadSpec == Init /\ [][ReadNext]_vars

\* Overlapping requests over a store that does not fail.
RaceNext ==
    \/ \E r \in Slots, p \in ProfileIds, j \in RequestedJobIds :
          clock < MaxOverlapping /\ PayJob(r, p, j)
    \/ \E r \in Slots, p \in ProfileIds, u \in UserIds, a \in Amounts :
          clock < MaxOverlapping /\ Deposit(r, p, u, a)
    \/ \E r \in Slots : Debit(r)
    \/ \E r \in Slots : Credit(r)
    \/ \E r \in Slots : MarkPaid(r)
    \/ \E r \in Slots : Finish(r)

RaceSpec == Init /\ [][RaceNext]_vars

(***************************************************************************)
(* Properties.                                                             *)
(***************************************************************************)
Done(r) == rq[r].pc = "done"
PayDone(r) == Done(r) /\ rq[r].kind = "pay"
DepositDone(r) == Done(r) /\ rq[r].kind = "deposit"

\* Nothing the request did reached the store.
NoEffect(r) ==
    /\ rq[r].applied = {}
    /\ rq[r].pending = {}
    /\ balance = rq[r].before

\* Sum of the prices of the unpaid jobs whose contract's client is p.
Outstanding(p) ==
    SumPrices({j \in JobIds : Contracts[JobRows[j].ContractId].ClientId = p
                              /\ jobs[j].paid # "TRUE"})

\* C1: one request at a time and no storage failure: when a request is over,
\* the sum of all balances is what it was when the request arrived.
C1_Conservation ==
    \A r \in Slots : Done(r) => TotalBalance = SumOver(rq[r].before, ProfileIds)

\* C2: every balance is >= 0 in every reachable state.
C2_NonNegative == \A p \in ProfileIds : balance[p] >= 0

\* C3: no two payJob requests both take the price of the same job from the
\* client.
C3_PaidAtMostOnce ==
    \A r, s \in Slots :
        /\ r # s
        /\ rq[r].kind = "pay" /\ rq[s].kind = "pay"
        /\ rq[r].job.found /\ rq[r].job.id = rq[s].job.id
        => ~("debit" \in rq[r].applied /\ "debit" \in rq[s].applied)

\* C4: one request at a time and no storage failure: a payJob by the client
\* on an unpaid job it can afford answers 200, a payJob that answers 200
\* leaves the job paid, and a payJob on a job that is paid when it arrives
\* answers 400 and changes no balance and no job.
C4_PayIdempotent ==
    \A r \in Slots :
        PayDone(r) /\ rq[r].job.found =>
            /\ (rq[r].job.paid # "TRUE" /\ rq[r].job.clientBalance >= rq[r].job.price)
                  => Status(r) = 200
            /\ Status(r) = 200 => jobs[rq[r].job.id].paid = "TRUE"
            /\ rq[r].job.paid = "TRUE" =>
                  /\ Status(r) = 400
                  /\ NoEffect(r)
                  /\ jobs[rq[r].job.id].paid = "TRUE"

\* A payJob on a job that an earlier payJob paid has been answered 400; the
\* contractor holds the price the earlier one moved.
C4_Witness ==
    \E r \in Slots :
        /\ PayDone(r) /\ rq[r].job.found /\ rq[r].job.paid = "TRUE"
        /\ Status(r) = 400
        /\ balance[rq[r].job.ContractorId] = rq[r].job.price

\* C5: a payJob request one of whose three writes failed is answered 500 and
\* none of its writes is in the store.
C5_PayAtomic ==
    \A r \in Slots :
        PayDone(r) /\ rq[r].failed => Status(r) = 500 /\ rq[r].applied = {}

\* C6: one request at a time and no storage failure: payJob by the client on
\* an unpaid job it can afford answers 200, moves exactly the price from the
\* client to the contractor and leaves the job paid with its paymentDate set.
C6_PaySuccess ==
    \A r \in Slots :
        (/\ PayDone(r) /\ rq[r].job.found /\ rq[r].job.paid # "TRUE"
         /\ rq[r].job.clientBalance >= rq[r].job.price)
        => LET job == rq[r].job
           IN  /\ rq[r].sends = <<200>> /\ ~rq[r].thrown
               /\ balance[job.ClientId] = job.clientBalance - job.price
               /\ balance[job.ContractorId] = job.contractorBalance + job.price
               /\ \A p \in ProfileIds \ {job.ClientId, job.ContractorId} :
                     balance[p] = rq[r].before[p]
               /\ jobs[job.id].paid = "TRUE"
               /\ jobs[job.id].paymentDate > 0

\* The example of the specification: price 200, client 500, contractor 0.
C6_Witness ==
    \E r \in Slots :
        /\ PayDone(r) /\ rq[r].job.found /\ rq[r].job.paid # "TRUE"
        /\ rq[r].job.price = 200 /\ rq[r].job.clientBalance = 500
        /\ rq[r].job.contractorBalance = 0
        /\ balance[rq[r].job.ClientId] = 300 /\ balance[rq[r].job.ContractorId] = 200

\* C7: payJob on an unpaid job whose price exceeds the client's balance is
\* answered 400 and changes no balance and not the job.
C7_PayOverdraftRejected ==
    \A r \in Slots :
        (/\ PayDone(r) /\ rq[r].job.found /\ rq[r].job.paid # "TRUE"
         /\ rq[r].job.price > rq[r].job.clientBalance)
        => /\ Status(r) = 400
           /\ NoEffect(r)
           /\ jobs[rq[r].job.id].paid # "TRUE"

\* C8: payJob on a job that does not exist, or whose contract's client is not
\* the caller, is answered 404, without a fault, and changes nothing.
C8_PayNotFound ==
    \A r \in Slots :
        PayDone(r) /\ ~rq[r].job.found =>
            Status(r) = 404 /\ ~rq[r].thrown /\ NoEffect(r)

\* C9: one request at a time and no storage failure: a deposit of a positive
\* amount to another id is answered 400 with no balance change when the
\* amount exceeds 25% of the payer's outstanding total, and otherwise is
\* answered 200 with both statements of the transfer applied: the payer has
\* the amount less and the receiver, when it exists, the amount more.
C9_DepositCap ==
    \A r \in Slots :
        (/\ DepositDone(r) /\ rq[r].target # rq[r].profileId
         /\ rq[r].amount.t = "number" /\ rq[r].amount.v > 0)
        => LET p == rq[r].profileId
               u == rq[r].target
               a == rq[r].amount.v
           IN  IF 100 * a > 25 * Outstanding(p)
               THEN /\ rq[r].sends = <<400>>
                    /\ rq[r].message = "Cannot deposit more than 25% of total of unpaid jobs"
                    /\ NoEffect(r)
               ELSE /\ rq[r].sends = <<200>>
                    /\ rq[r].applied = {"debit", "credit"}
                    /\ balance[p] = rq[r].before[p] - a
                    /\ u \in ProfileIds => balance[u] = rq[r].before[u] + a

\* The boundary of the specification: outstanding 100, amount 25 is accepted.
C9_Witness ==
    \E r \in Slots :
        /\ DepositDone(r) /\ Outstanding(rq[r].profileId) = 100
        /\ rq[r].amount = Num(25) /\ rq[r].target \in ProfileIds
        /\ rq[r].sends = <<200>>
        /\ balance[rq[r].target] = rq[r].before[rq[r].target] + 25

\* C10: a deposit whose receiver is the caller is answered 400 "Cannot deposit
\* to yourself" whatever the amount, and changes no balance.
C10_SelfDeposit ==
    \A r \in Slots :
        DepositDone(r) /\ rq[r].target = rq[r].profileId =>
            /\ rq[r].sends = <<400>>
            /\ rq[r].message = "Cannot deposit to yourself"
            /\ NoEffect(r)

\* Self-deposits of a missing, a zero, a negative, a within-cap and an
\* over-cap amount exist; this one is over the cap.
C10_Witness ==
    \E r \in Slots :
        /\ DepositDone(r) /\ rq[r].target = rq[r].profileId
        /\ rq[r].amount = Num(26) /\ Outstanding(rq[r].profileId) = 100
        /\ rq[r].sends = <<400>>

\* C11: a deposit to another id whose amount is missing, zero or negative is
\* answered 400 "Invalid deposit amount" without Job.sum having been run and
\* without any statement of transfer; and no request, payJob or deposit, has
\* issued the statements of a transfer of an amount <= 0.
C11_InvalidAmount ==
    \A r \in Slots :
        /\ (/\ DepositDone(r) /\ rq[r].target # rq[r].profileId
            /\ (rq[r].amount.t = "undefined" \/ rq[r].amount.v <= 0))
           => /\ rq[r].sends = <<400>>
              /\ rq[r].message = "Invalid deposit amount"
              /\ ~rq[r].summed
              /\ NoEffect(r)
        /\ (rq[r].pending # {} \/ rq[r].applied # {}) => rq[r].value > 0

\* A deposit of a negative amount to another profile has been rejected.
C11_Witness ==
    \E r \in Slots :
        /\ DepositDone(r) /\ rq[r].target # rq[r].profileId
        /\ rq[r].amount = Num(-25)
        /\ rq[r].sends = <<400>>

\* C13: when a request that ran transfer is over, the debit and the credit are
\* both in the store or neither is.
C13_TransferPairAtomic ==
    \A r \in Slots :
        Done(r) => ("debit" \in rq[r].applied <=> "credit" \in rq[r].applied)

\* C14: a deposit whose transfer failed sends exactly one response, 500.
C14_DepositFailureAnswer ==
    \A r \in Slots :
        DepositDone(r) /\ rq[r].failed => rq[r].sends = <<500>>

\* C18: when a deposit request is over, the transaction its transfer opened
\* has been committed or rolled back.
C18_NoTransactionLeftOpen ==
    \A r \in Slots : DepositDone(r) => rq[r].tx # "open"

\* C19: a deposit whose receiver id names no profile changes no balance.
C19_MissingBeneficiary ==
    \A r \in Slots :
        DepositDone(r) /\ rq[r].target \notin ProfileIds => balance = rq[r].before

\* C12: requests overlapping in any way: the balance of every profile is the
\* balance it started with plus the amounts of all the statements applied to
\* it; no statement overwrites what another one added.
C12_NoLostUpdate == \A p \in ProfileIds : balance[p] = ledger[p]

\* Two deposits, one from A to B and one from B to A, arrived before any
\* statement of either was applied; one has had both its statements applied
\* and the other its debit of B, on top of the first one's credit of B.
C12_Witness ==
    \E r, s \in Slots :
        /\ r # s
        /\ rq[r].kind = "deposit" /\ rq[s].kind = "deposit"
        /\ rq[r].from = rq[s].to /\ rq[r].to = rq[s].from
        /\ rq[r].before = rq[s].before
        /\ rq[r].applied = {"debit", "credit"}
        /\ rq[s].applied = {"debit"}
        /\ balance[rq[s].from] = rq[s].before[rq[s].from] + rq[r].value - rq[s].value

\* C15: in every step and for every job, paymentDate is set exactly when paid
\* is true, and a job that is paid keeps its paid flag and its paymentDate.
C15_JobState ==
    [][\A j \in JobIds :
          /\ jobs'[j].paid = "TRUE" <=> jobs'[j].paymentDate # 0
          /\ jobs[j].paid = "TRUE" => jobs'[j] = jobs[j]]_vars

\* The profiles a request may move money between: the client and the
\* contractor of the contract of the job a payJob names, the caller and the
\* receiver of a deposit.
Parties(r) ==
    IF rq[r].kind = "pay"
    THEN IF rq[r].target \in JobIds
         THEN {Contracts[JobRows[rq[r].target].ContractId].ClientId,
               Contracts[JobRows[rq[r].target].ContractId].ContractorId}
         ELSE {}
    ELSE {rq[r].profileId, rq[r].target}

\* C20: one request at a time and no storage failure: a step changes a
\* balance only of a party of the request being served and a job only when
\* it is the job that a payJob being served names; a deposit changes no job;
\* a request that is rejected is over in one step, which changes no balance
\* and no job, and it has applied no statement.
C20_Frame ==
    [][/\ \A p \in ProfileIds :
             balance'[p] # balance[p] =>
                 \E r \in Slots : rq[r].pc = "writes" /\ p \in Parties(r)
       /\ \A j \in JobIds :
             jobs'[j] # jobs[j] =>
                 \E r \in Slots : /\ rq[r].pc = "writes" /\ rq[r].kind = "pay"
                                  /\ rq[r].target = j
       /\ \A r \in Slots :
             (rq'[r].pc = "done" /\ rq'[r].sends # <<200>>) =>
                 /\ rq[r].pc = "idle"
                 /\ rq'[r].applied = {}
                 /\ balance' = balance /\ jobs' = jobs]_vars

\* A payJob has been answered 200: the profile that is no party of the job's
\* contract has the balance it had and the other job is as it was.
C20_Witness ==
    \E r \in Slots :
        /\ PayDone(r) /\ rq[r].sends = <<200>>
        /\ \E p \in ProfileIds \ Parties(r) : balance[p] = rq[r].before[p]
        /\ \E j \in JobIds \ {rq[r].target} : jobs[j].paid = "NULL"
        /\ jobs[rq[r].target].paid = "TRUE"

\* C16: GET /contracts/:id answers 200 with the contract when the contract
\* exists and the caller is its client or its contractor, and 404 otherwise.
C16_ContractOfParty ==
    \A r \in Slots :
        Done(r) /\ rq[r].kind = "contract" =>
            IF /\ rq[r].target \in ContractIds
               /\ rq[r].profileId \in {Contracts[rq[r].target].ClientId,
                                       Contracts[rq[r].target].ContractorId}
            THEN rq[r].sends = <<200>> /\ rq[r].body = {rq[r].target}
            ELSE rq[r].sends = <<404>> /\ rq[r].body = {}

\* C17: GET /jobs/unpaid answers with exactly the jobs that are unpaid and
\* whose contract is in progress and has the caller as client or contractor.
C17_UnpaidActiveJobs ==
    \A r \in Slots :
        Done(r) /\ rq[r].kind = "unpaid" =>
            /\ rq[r].sends = <<200>>
            /\ rq[r].body =
                 {j \in JobIds :
                    /\ jobs[j].paid # "TRUE"
                    /\ Contracts[JobRows[j].ContractId].status = "in_progress"
                    /\ rq[r].profileId \in
                          {Contracts[JobRows[j].ContractId].ClientId,
                           Contracts[JobRows[j].ContractId].ContractorId}}

=============================================================================
